---------------------------- MODULE Spec2Model ----------------------------
(***************************************************************************)
(* Model of the colour-space converters of gil/dip/ColorSpace.h.           *)
(*                                                                         *)
(* Every converter is a stateless functor; the state machine below holds   *)
(* one caller: the pixel it passes (from), what the converter handed back  *)
(* (to), what a reverse converter made of that (back), the converter last  *)
(* invoked (conv) and how the call ended (outcome).                        *)
(*                                                                         *)
(* Two instantiations are modelled:                                        *)
(*   SpecByte   Color<Byte1, 3>: 8-bit channels; the arithmetic is IEEE    *)
(*              double, modelled bit-exactly on 22-bit limbs;              *)
(*   SpecFloat  Color<Float, 3>: channels k/FloatGrid in 0..1, modelled    *)
(*              as exact rationals extended with NaN and +-Infinity.       *)
(***************************************************************************)
EXTENDS Integers, Sequences, FiniteSets

VARIABLES from, to, back, conv, outcome, ndebug

vars == <<from, to, back, conv, outcome, ndebug>>

(***************************************************************************)
(* Bounds of the model                                                     *)
(***************************************************************************)
\* 8-bit channel values tried: the multiples of ByteStride, and EdgeBytes.
ByteStride == 17
\* Float channel values tried: k/FloatGrid, k in 0..FloatGrid.
FloatGrid == 4

EdgeBytes == {6, 24, 72, 128, 255}

(***************************************************************************)
(* TypeTrait<Byte1> (gil.h, not among the sources): the opaque maximum.    *)
(***************************************************************************)
Opaque == 255

ByteSamples == {v \in 0..Opaque : v % ByteStride = 0} \cup EdgeBytes

BytePixels == {<<r, g, b>> : r \in ByteSamples, g \in ByteSamples, b \in ByteSamples}

NoPixel == <<>>

Abs(n) == IF n < 0 THEN -n ELSE n

(***************************************************************************)
(* IEEE-754 binary64 arithmetic.                                           *)
(*                                                                         *)
(* Every double the 8-bit converters compute is a multiple of 2^-56 of     *)
(* magnitude below 2^10: a product of a coefficient (whose own ulp is at   *)
(* least 2^-56) with an int, or a sum of such.  A double is the record     *)
(* [s, m]: sign s (1 or -1) and magnitude m = <<a2, a1, a0>>, three 22-bit *)
(* limbs, of value s * (a2*2^44 + a1*2^22 + a0) * 2^-56.  Each operation   *)
(* computes the exact result and rounds it to 53 significant bits, ties    *)
(* to even, as the hardware does.                                          *)
(***************************************************************************)
Limb == 2^22

\* Carry propagation: limbs that may exceed Limb, made canonical.
Norm(h, m, l) ==
    LET m1 == m + (l \div Limb)
    IN  <<h + (m1 \div Limb), m1 % Limb, l % Limb>>

RECURSIVE Log2(_)
Log2(n) == IF n < 2 THEN 0 ELSE 1 + Log2(n \div 2)

\* Round a magnitude to 53 significant bits, ties to even.  Bit 53 is bit 9
\* of the top limb; at most 13 low bits are dropped, all of the low limb.
DRound(mag) ==
    IF mag[1] < 512 THEN mag
    ELSE LET sh  == Log2(mag[1]) - 8
             q   == 2^sh
             rem == mag[3] % q
             dn  == mag[3] - rem
             odd == (mag[3] \div q) % 2 = 1
             up  == (2 * rem > q) \/ (2 * rem = q /\ odd)
         IN  Norm(mag[1], mag[2], IF up THEN dn + q ELSE dn)

MagLt(x, y) ==
    \/ x[1] < y[1]
    \/ x[1] = y[1] /\ x[2] < y[2]
    \/ x[1] = y[1] /\ x[2] = y[2] /\ x[3] < y[3]

MagAdd(x, y) == Norm(x[1] + y[1], x[2] + y[2], x[3] + y[3])

\* x - y for x >= y, borrowing limb by limb.
MagSub(x, y) ==
    LET b0 == IF x[3] < y[3] THEN 1 ELSE 0
        l0 == x[3] - y[3] + b0 * Limb
        b1 == IF x[2] - b0 < y[2] THEN 1 ELSE 0
        l1 == x[2] - b0 - y[2] + b1 * Limb
    IN  <<x[1] - b1 - y[1], l1, l0>>

\* int -> double (exact).
DFromInt(n) == [s |-> IF n < 0 THEN -1 ELSE 1, m |-> <<Abs(n) * 4096, 0, 0>>]

\* double * int, rounded.
DMulInt(c, n) ==
    [s |-> IF n < 0 THEN -c.s ELSE c.s,
     m |-> DRound(Norm(c.m[1] * Abs(n), c.m[2] * Abs(n), c.m[3] * Abs(n)))]

DNeg(x) == [s |-> -x.s, m |-> x.m]

\* double + double, rounded.
DAdd(x, y) ==
    IF x.s = y.s THEN [s |-> x.s, m |-> DRound(MagAdd(x.m, y.m))]
    ELSE IF MagLt(x.m, y.m) THEN [s |-> y.s, m |-> DRound(MagSub(y.m, x.m))]
    ELSE [s |-> x.s, m |-> DRound(MagSub(x.m, y.m))]

DSub(x, y) == DAdd(x, DNeg(y))

\* The integer part of a double (truncation toward zero).
DTrunc(x) == x.s * (x.m[1] \div 4096)

\* static_cast<Byte1>(double): the truncated value when 0..255 holds it;
\* otherwise the conversion is undefined and any channel value may result.
NarrowByte(x) == IF DTrunc(x) \in 0..Opaque THEN {DTrunc(x)} ELSE ByteSamples

\* The literals of the source as binary64 (nearest double, in units of 2^-56).
D0299 == [s |-> 1, m |-> <<1224, 2952790, 67108>>]
D0587 == [s |-> 1, m |-> <<2404, 1476395, 33552>>]
D0114 == [s |-> 1, m |-> <<466, 3959422, 4093641>>]
D0713 == [s |-> 1, m |-> <<2920, 1879048, 805304>>]
D0564 == [s |-> 1, m |-> <<2310, 603979, 3254776>>]
D1403 == [s |-> 1, m |-> <<5746, 2885681, 637536>>]
D0714 == [s |-> 1, m |-> <<2924, 2281701, 1577056>>]
D0344 == [s |-> 1, m |-> <<1409, 100663, 1241512>>]
D1773 == [s |-> 1, m |-> <<7262, 872415, 973072>>]

(***************************************************************************)
(* 8-bit converters                                                        *)
(***************************************************************************)
\* 0.299*from[0] + 0.587*from[1] + 0.114*from[2], before the cast.
GrayRaw(p) == DAdd(DAdd(DMulInt(D0299, p[1]), DMulInt(D0587, p[2])), DMulInt(D0114, p[3]))

\* RgbToGray: the sum is never negative and never above 255, so the cast is defined.
RgbToGray(p) == DTrunc(GrayRaw(p))

\* delta without the halving.
DeltaNotHalved == Opaque

\* const value_type delta = TypeTrait<value_type>::opaque() / 2;
Delta == Opaque \div 2

\* (R-Y) * 0.713 + delta and (B-Y) * 0.564 + delta, before the casts.
CrRaw(p) == DAdd(DMulInt(D0713, p[1] - RgbToGray(p)), DFromInt(Delta))
CbRaw(p) == DAdd(DMulInt(D0564, p[3] - RgbToGray(p)), DFromInt(Delta))

\* RgbToYCrCb: the pixels To(Y, Cr, Cb) the call may return.
RgbToYCrCb(p) == {<<RgbToGray(p), cr, cb>> : cr \in NarrowByte(CrRaw(p)), cb \in NarrowByte(CbRaw(p))}

\* Y + 1.403*(Cr-delta), Y - 0.714*(Cr-delta) - 0.344*(Cb-delta), Y + 1.773*(Cb-delta).
RRaw(q) == DAdd(DFromInt(q[1]), DMulInt(D1403, q[2] - Delta))
GRaw(q) == DSub(DSub(DFromInt(q[1]), DMulInt(D0714, q[2] - Delta)), DMulInt(D0344, q[3] - Delta))
BRaw(q) == DAdd(DFromInt(q[1]), DMulInt(D1773, q[3] - Delta))

\* YCrCbToRgb: the pixels To(R, G, B) the call may return.
YCrCbToRgb(q) ==
    {<<r, g, b>> : r \in NarrowByte(RRaw(q)), g \in NarrowByte(GRaw(q)), b \in NarrowByte(BRaw(q))}

(***************************************************************************)
(* The 8-bit caller                                                        *)
(***************************************************************************)
InitByte ==
    /\ from \in BytePixels
    /\ to = NoPixel
    /\ back = NoPixel
    /\ conv = "none"
    /\ outcome = "idle"
    /\ ndebug = FALSE

CallRgbToGray ==
    /\ conv = "none"
    /\ conv' = "RgbToGray"
    /\ to' = <<RgbToGray(from)>>
    /\ outcome' = "returned"
    /\ UNCHANGED <<from, back, ndebug>>

CallRgbToYCrCb ==
    /\ conv = "none"
    /\ conv' = "RgbToYCrCb"
    /\ to' \in RgbToYCrCb(from)
    /\ outcome' = "returned"
    /\ UNCHANGED <<from, back, ndebug>>

CallYCrCbToRgb ==
    /\ conv = "RgbToYCrCb"
    /\ conv' = "YCrCbToRgb"
    /\ back' \in YCrCbToRgb(to)
    /\ outcome' = "returned"
    /\ UNCHANGED <<from, to, ndebug>>

NextByte == CallRgbToGray \/ CallRgbToYCrCb \/ CallYCrCbToRgb

SpecByte == InitByte /\ [][NextByte]_vars

(***************************************************************************)
(* Floating-point channels.                                                *)
(*                                                                         *)
(* A value is the record [n, d]: the rational n/d when d > 0 (kept in      *)
(* lowest terms by the general operations), NaN when n = d = 0 and         *)
(* +-Infinity when d = 0 and n = +-1.  Arithmetic is exact: the rounding   *)
(* of float and double is not modelled, so a widening or narrowing cast    *)
(* between the two leaves a value as it is.                                *)
(***************************************************************************)
RECURSIVE GCD(_, _)
GCD(a, b) == IF b = 0 THEN a ELSE GCD(b, a % b)

Sign(k) == IF k < 0 THEN -1 ELSE IF k > 0 THEN 1 ELSE 0

NaN == [n |-> 0, d |-> 0]
Inf(sg) == [n |-> sg, d |-> 0]
IsNaN(x) == x.n = 0 /\ x.d = 0
IsFinite(x) == x.d # 0

RInt(k) == [n |-> k, d |-> 1]

\* n/d for d # 0, in lowest terms with a positive denominator.
RNorm(n, d) ==
    LET g == GCD(Abs(n), Abs(d))
    IN  [n |-> (Sign(d) * n) \div g, d |-> Abs(d) \div g]

RNeg(x) == [n |-> -x.n, d |-> x.d]

RAdd(x, y) ==
    IF IsNaN(x) \/ IsNaN(y) THEN NaN
    ELSE IF x.d = 0 /\ y.d = 0 THEN (IF x.n = y.n THEN x ELSE NaN)
    ELSE IF x.d = 0 THEN x
    ELSE IF y.d = 0 THEN y
    ELSE RNorm(x.n * y.d + y.n * x.d, x.d * y.d)

RSub(x, y) == RAdd(x, RNeg(y))

RMul(x, y) ==
    IF IsNaN(x) \/ IsNaN(y) THEN NaN
    ELSE IF x.d = 0 \/ y.d = 0
         THEN (IF x.n = 0 \/ y.n = 0 THEN NaN ELSE Inf(Sign(x.n) * Sign(y.n)))
    ELSE RNorm(x.n * y.n, x.d * y.d)

\* IEEE division: 0/0 and Inf/Inf are NaN, x/0 is +-Infinity.
RDiv(x, y) ==
    IF IsNaN(x) \/ IsNaN(y) THEN NaN
    ELSE IF x.d = 0 /\ y.d = 0 THEN NaN
    ELSE IF y.d = 0 THEN RInt(0)
    ELSE IF y.n = 0 THEN (IF x.n = 0 THEN NaN ELSE Inf(Sign(x.n)))
    ELSE IF x.d = 0 THEN Inf(Sign(x.n) * Sign(y.n))
    ELSE RNorm(x.n * y.d, x.d * y.n)

\* x < y; every comparison with NaN is false.
RLt(x, y) ==
    IF IsNaN(x) \/ IsNaN(y) THEN FALSE
    ELSE IF x.d = 0 /\ y.d = 0 THEN x.n < y.n
    ELSE IF x.d = 0 THEN x.n < 0
    ELSE IF y.d = 0 THEN y.n > 0
    ELSE x.n * y.d < y.n * x.d

\* x == y
REq(x, y) ==
    IF IsNaN(x) \/ IsNaN(y) THEN FALSE
    ELSE IF x.d = 0 \/ y.d = 0 THEN x = y
    ELSE x.n * y.d = y.n * x.d

\* std::max(a, b) is (a < b) ? b : a; std::min(a, b) is (b < a) ? b : a.
RMax(a, b) == IF RLt(a, b) THEN b ELSE a
RMin(a, b) == IF RLt(b, a) THEN b ELSE a

FloatPixels ==
    {<<[n |-> r, d |-> FloatGrid], [n |-> g, d |-> FloatGrid], [n |-> b, d |-> FloatGrid]>> :
        r \in 0..FloatGrid, g \in 0..FloatGrid, b \in 0..FloatGrid}

\* DefaultConverter<tmp_color, T> (Convert.h, not among the sources): the same
\* colour in the extended channel type, channel by channel.
DefaultConverter(p) == [i \in 1..3 |-> p[i]]

(***************************************************************************)
(* RGB <-> CIE XYZ                                                         *)
(***************************************************************************)
Micro == 10^6
Kilo == 10^3

\* The matrices of the source, in units of 10^-6.
RgbToXyzMatrix ==
    << <<412453, 357580, 180423>>,
       <<212671, 715160,  72169>>,
       << 19334, 119193, 950227>> >>

\* The inverse matrix with the sign of one coefficient lost.
XyzToRgbMatrixSignLost ==
    << <<3240479,  1537150, -498535>>,
       <<-969256,  1875991,   41556>>,
       <<  55648,  -204043, 1057311>> >>

XyzToRgbMatrix ==
    << <<3240479, -1537150, -498535>>,
       <<-969256,  1875991,   41556>>,
       <<  55648,  -204043, 1057311>> >>

\* RgbToXyz on channels of one denominator d: the result channels have
\* denominator 10^6 * d and are not reduced.
RgbToXyz(p) ==
    [i \in 1..3 |->
        [n |-> RgbToXyzMatrix[i][1] * p[1].n + RgbToXyzMatrix[i][2] * p[2].n
                 + RgbToXyzMatrix[i][3] * p[3].n,
         d |-> Micro * p[1].d]]

\* The exact dot product c[1]*x[1] + c[2]*x[2] + c[3]*x[3] as hi * 10^6 + lo,
\* 0 <= lo < 10^6, from the base-1000 digits of the factors.
WideDot(c, x) ==
    LET A == (c[1] \div Kilo) * (x[1] \div Kilo) + (c[2] \div Kilo) * (x[2] \div Kilo)
               + (c[3] \div Kilo) * (x[3] \div Kilo)
        B == (c[1] \div Kilo) * (x[1] % Kilo) + (c[1] % Kilo) * (x[1] \div Kilo)
               + (c[2] \div Kilo) * (x[2] % Kilo) + (c[2] % Kilo) * (x[2] \div Kilo)
               + (c[3] \div Kilo) * (x[3] % Kilo) + (c[3] % Kilo) * (x[3] \div Kilo)
        C == (c[1] % Kilo) * (x[1] % Kilo) + (c[2] % Kilo) * (x[2] % Kilo)
               + (c[3] % Kilo) * (x[3] % Kilo)
        low == (B % Kilo) * Kilo + C
    IN  [hi |-> A + (B \div Kilo) + (low \div Micro), lo |-> low % Micro]

\* XyzToRgb on channels of one denominator d: a result channel is the record
\* [hi, lo, d] of value (hi + lo * 10^-6) / d.
XyzToRgb(q) ==
    [i \in 1..3 |->
        LET w == WideDot(XyzToRgbMatrix[i], <<q[1].n, q[2].n, q[3].n>>)
        IN  [hi |-> w.hi, lo |-> w.lo, d |-> q[1].d]]

(***************************************************************************)
(* RGB -> HSV, RGB -> HSL                                                  *)
(***************************************************************************)
\* The hue of pure green, with the slip of the reference the source's comment
\* warns of ("180 should be 120").
HueAtGreenSlip == 120 + 60

\* H = 120 + (B-R)*60/S: the hue at which G attains V.
HueAtGreen == 120

RgbToHsv(p) ==
    LET tmp == DefaultConverter(p)
        R == tmp[1]
        G == tmp[2]
        B == tmp[3]
        V == RMax(RMax(R, G), RMax(G, B))
        S == IF V.n # 0 THEN RDiv(RSub(V, RMin(RMin(R, G), RMin(G, B))), V) ELSE RInt(0)
        H0 == IF REq(V, R) THEN RDiv(RMul(RSub(G, B), RInt(60)), S)
              ELSE IF REq(V, G) THEN RAdd(RInt(HueAtGreen), RDiv(RMul(RSub(B, R), RInt(60)), S))
              ELSE RAdd(RInt(240), RDiv(RMul(RSub(R, G), RInt(60)), S))
        H == IF RLt(H0, RInt(0)) THEN RAdd(H0, RInt(360)) ELSE H0
    IN  <<H, S, V>>

RgbToHsl(p) ==
    LET tmp == DefaultConverter(p)
        R == tmp[1]
        G == tmp[2]
        B == tmp[3]
        Vmax == RMax(RMax(R, G), RMax(G, B))
        Vmin == RMin(RMin(R, G), RMin(G, B))
        L == RDiv(RAdd(Vmax, Vmin), RInt(2))
        S == IF RLt(L, [n |-> 1, d |-> 2])
             THEN RDiv(RSub(Vmax, Vmin), RAdd(Vmax, Vmin))
             ELSE RDiv(RSub(Vmax, Vmin), RSub(RInt(2), RAdd(Vmax, Vmin)))
        H0 == IF REq(Vmax, R) THEN RDiv(RMul(RSub(G, B), RInt(60)), S)
              ELSE IF REq(Vmax, G) THEN RAdd(RInt(120), RDiv(RMul(RSub(B, R), RInt(60)), S))
              ELSE RAdd(RInt(240), RDiv(RMul(RSub(R, G), RInt(60)), S))
        H == IF RLt(H0, RInt(0)) THEN RAdd(H0, RInt(360)) ELSE H0
    IN  <<H, S, L>>

(***************************************************************************)
(* RGB -> CIE Luv.  X, Y and Z are exact; L, u' and v' are kept to fixed   *)
(* precision (L to 10^-3, u, u', v and v' to 10^-6), rounded down.         *)
(***************************************************************************)
\* std::pow(t, 1./3) in units of 10^-3, for t in units of 10^-9.
ICbrt(t) == CHOOSE c \in 0..Kilo : c * c * c <= t /\ t < (c + 1) * (c + 1) * (c + 1)

\* floor(num * 10^k / den) for num >= 0 and den > 0, by long division.
RECURSIVE FixDiv(_, _, _)
FixDiv(num, den, k) ==
    IF k = 0 THEN num \div den
    ELSE (num \div den) * 10^k + FixDiv((num % den) * 10, den, k - 1)

\* const tmp_type un = 0.19793943; const tmp_type vn = 0.46831096; in units of 10^-6.
un == 197939
vn == 468310

\* L in units of 10^-3, for Y = [n, d] with d a multiple of 10^6.
LuvL(Y) ==
    LET scale  == Y.d \div Micro
        Ymicro == Y.n \div scale
    IN  IF Y.n > 8856 * scale
        THEN 116 * ICbrt(Ymicro * Kilo) - 16 * Kilo
        ELSE (9033 * Ymicro) \div 10000

\* num / den as the source divides it: 0/0 is NaN, x/0 is Infinity.
LuvRatio(num, den) ==
    IF den = 0 THEN (IF num = 0 THEN NaN ELSE Inf(1))
    ELSE [n |-> FixDiv(num, den, 6), d |-> Micro]

\* 13 * L * (c - cn), for L in units of 10^-3 and cn in units of 10^-6.
LuvChroma(L, c, cn) ==
    IF IsNaN(c) THEN NaN
    ELSE IF c.d = 0 THEN (IF L = 0 THEN NaN ELSE Inf(Sign(L)))
    ELSE LET a == 13 * L
             b == c.n - cn
         IN  [n |-> (a \div Kilo) * b + ((a % Kilo) * b) \div Kilo, d |-> Micro]

RgbToLuv(p) ==
    LET tmp == RgbToXyz(DefaultConverter(p))
        X == tmp[1]
        Y == tmp[2]
        Z == tmp[3]
        L == LuvL(Y)
        u_ == LuvRatio(4 * X.n, X.n + 15 * Y.n + 3 * Z.n)
        v_ == LuvRatio(9 * Y.n, X.n + 15 * Y.n + 3 * Z.n)
    IN  <<[n |-> L, d |-> Kilo], LuvChroma(L, u_, un), LuvChroma(L, v_, vn)>>

(***************************************************************************)
(* The reverse converters that are not written: HsvToRgb, HslToRgb,        *)
(* LabToRgb and LuvToRgb.  The body is assert(0) and nothing else.  With   *)
(* assertions compiled in the process is aborted; with NDEBUG the          *)
(* assertion is no code at all, control flows off the end of a function    *)
(* that returns a pixel, and the caller receives whatever is there.        *)
(***************************************************************************)
Unimplemented(name) ==
    /\ conv' = name
    /\ IF ndebug
       THEN /\ to' \in FloatPixels
            /\ outcome' = "returned"
       ELSE /\ to' = NoPixel
            /\ outcome' = "aborted"
    /\ UNCHANGED <<from, back, ndebug>>

(***************************************************************************)
(* The floating-point caller                                               *)
(***************************************************************************)
InitFloat ==
    /\ from \in FloatPixels
    /\ to = NoPixel
    /\ back = NoPixel
    /\ conv = "none"
    /\ outcome = "idle"
    /\ ndebug \in BOOLEAN

\* A forward converter returns its result pixel.
Forward(name, result) ==
    /\ conv' = name
    /\ to' = result
    /\ outcome' = "returned"
    /\ UNCHANGED <<from, back, ndebug>>

CallRgbToXyz ==
    /\ conv = "none"
    /\ Forward("RgbToXyz", RgbToXyz(from))

CallXyzToRgb ==
    /\ conv = "RgbToXyz"
    /\ conv' = "XyzToRgb"
    /\ back' = XyzToRgb(to)
    /\ outcome' = "returned"
    /\ UNCHANGED <<from, to, ndebug>>

CallRgbToHsv ==
    /\ conv = "none"
    /\ Forward("RgbToHsv", RgbToHsv(from))

CallRgbToHsl ==
    /\ conv = "none"
    /\ Forward("RgbToHsl", RgbToHsl(from))

CallRgbToLuv ==
    /\ conv = "none"
    /\ Forward("RgbToLuv", RgbToLuv(from))

CallHsvToRgb ==
    /\ conv = "none"
    /\ Unimplemented("HsvToRgb")

CallHslToRgb ==
    /\ conv = "none"
    /\ Unimplemented("HslToRgb")

CallLabToRgb ==
    /\ conv = "none"
    /\ Unimplemented("LabToRgb")

CallLuvToRgb ==
    /\ conv = "none"
    /\ Unimplemented("LuvToRgb")

NextFloat ==
    \/ CallRgbToXyz
    \/ CallXyzToRgb
    \/ CallRgbToHsv
    \/ CallRgbToHsl
    \/ CallRgbToLuv
    \/ CallHsvToRgb
    \/ CallHslToRgb
    \/ CallLabToRgb
    \/ CallLuvToRgb

SpecFloat == InitFloat /\ [][NextFloat]_vars

(***************************************************************************)
(* Properties                                                              *)
(***************************************************************************)
Achromatic(p) == p[1] = p[2] /\ p[2] = p[3]

RLe(x, y) == IsFinite(x) /\ IsFinite(y) /\ ~RLt(y, x)

\* The least and the greatest channel of a float pixel.
MinOf(p) == CHOOSE m \in {p[1], p[2], p[3]} : \A i \in 1..3 : RLe(m, p[i])
MaxOf(p) == CHOOSE m \in {p[1], p[2], p[3]} : \A i \in 1..3 : RLe(p[i], m)

FloatPixel(r, g, b) ==
    <<[n |-> r, d |-> FloatGrid], [n |-> g, d |-> FloatGrid], [n |-> b, d |-> FloatGrid]>>

\* 0 <= x <= k for a double x and an int k >= 0.
DWithin(x, k) ==
    /\ x.s = 1 \/ x.m = <<0, 0, 0>>
    /\ DTrunc(x) < k \/ x.m = <<k * 4096, 0, 0>>

\* C1: for every 8-bit pixel RgbToGray returns the real number
\* 0.299 R + 0.587 G + 0.114 B truncated toward zero, that is
\* floor((299 R + 587 G + 114 B) / 1000).
C1_GrayIsTruncatedSum ==
    conv = "RgbToGray" =>
        to[1] = (299 * from[1] + 587 * from[2] + 114 * from[3]) \div 1000

\* C2: RgbToYCrCb maps an achromatic 8-bit pixel (v, v, v) to Y = v and
\* Cr = Cb = 128.
C2_AchromaticYCrCb ==
    (conv = "RgbToYCrCb" /\ Achromatic(from)) => to = <<from[1], 128, 128>>

\* The tolerance of the XYZ round trip, 10^-5, in units of 10^-6.
TolMicro == Micro \div 10^5

\* |w - r| <= 10^-5, for a channel w = [hi, lo, d] that XyzToRgb returned and
\* the channel r = [n, d] it is compared with (r.d divides w.d, 10^6 divides w.d).
WithinTol(w, r) ==
    LET D == w.hi - r.n * (w.d \div r.d)
        T == TolMicro * (w.d \div Micro)
    IN  /\ D >= -T
        /\ D < T \/ (D = T /\ w.lo = 0)

\* C3: for every float RGB pixel in 0..1, XyzToRgb(RgbToXyz(p)) is p within
\* 10^-5 in every channel.
C3_XyzRoundTrip ==
    conv = "XyzToRgb" => \A i \in 1..3 : WithinTol(back[i], from[i])

\* C3's case: pure red has made the round trip and come back inexact (its
\* red channel just below 1, its green channel just below 0).
C3_Witness ==
    /\ conv = "XyzToRgb"
    /\ from = FloatPixel(FloatGrid, 0, 0)
    /\ back[1].hi < Micro * FloatGrid
    /\ back[2].hi < 0

\* C4: on a float pixel with max # min, RgbToHsv returns V = max(R,G,B),
\* S with S*V = V - min, and a hue H with 0 <= H <= 360 that is the raw hue
\* base + 60*(x - y)/S of the channel attaining V (base 0 and G-B for R, 120
\* and B-R for G, 240 and R-G for B), plus 360 when the raw hue is negative;
\* 0 <= S <= 1 and 0 <= V <= 1; pure red gives (0, 1, 1) and pure green
\* (120, 1, 1).
C4_HsvChromatic ==
    (conv = "RgbToHsv" /\ ~Achromatic(from)) =>
        LET R == from[1]
            G == from[2]
            B == from[3]
            H == to[1]
            S == to[2]
            V == to[3]
            base == IF REq(V, R) THEN 0 ELSE IF REq(V, G) THEN 120 ELSE 240
            diff == IF REq(V, R) THEN RSub(G, B)
                    ELSE IF REq(V, G) THEN RSub(B, R) ELSE RSub(R, G)
            IsRaw(h) == REq(RMul(h, S), RAdd(RMul(RInt(base), S), RMul(RInt(60), diff)))
        IN  /\ REq(V, MaxOf(from))
            /\ REq(RMul(S, V), RSub(V, MinOf(from)))
            /\ RLe(RInt(0), H) /\ RLe(H, RInt(360))
            /\ RLe(RInt(0), S) /\ RLe(S, RInt(1))
            /\ RLe(RInt(0), V) /\ RLe(V, RInt(1))
            /\ \/ IsRaw(H)
               \/ IsRaw(RSub(H, RInt(360))) /\ RLt(RSub(H, RInt(360)), RInt(0))
            /\ from = FloatPixel(FloatGrid, 0, 0) => to = <<RInt(0), RInt(1), R>>
            /\ from = FloatPixel(0, FloatGrid, 0) => to = <<RInt(120), RInt(1), G>>

\* C4's case: RgbToHsv has run on a pixel whose red is 1, green 0 and blue
\* positive: the raw hue is negative and 360 has been added.
C4_Witness ==
    /\ conv = "RgbToHsv"
    /\ from = FloatPixel(FloatGrid, 0, 1)
    /\ RLt(RInt(240), to[1])

\* C5: RgbToHsv returns a defined hue (a number, not NaN or Infinity) for
\* every pixel of saturation 0.
C5_HueDefined ==
    (conv = "RgbToHsv" /\ REq(to[2], RInt(0))) => IsFinite(to[1])

\* C6: RgbToHsl returns a defined saturation whenever Vmax = Vmin, and
\* L = 1 with it on pure white.
C6_HslSaturationDefined ==
    (conv = "RgbToHsl" /\ Achromatic(from)) =>
        /\ IsFinite(to[2])
        /\ from = FloatPixel(FloatGrid, FloatGrid, FloatGrid) => REq(to[3], RInt(1))

ReverseConverters == {"HsvToRgb", "HslToRgb", "LabToRgb", "LuvToRgb"}

\* C7: an unimplemented reverse converter, once invoked, has ended in an
\* error and has handed no pixel to its caller.
C7_UnimplementedReportsError ==
    conv \in ReverseConverters => (outcome # "returned" /\ to = NoPixel)

\* C8: RgbToLuv returns a pixel whose three channels are defined numbers,
\* for every float pixel in 0..1, black included.
C8_LuvTotal ==
    conv = "RgbToLuv" => \A i \in 1..3 : IsFinite(to[i])

\* C9: for every 8-bit pixel, YCrCbToRgb(RgbToYCrCb(p)) differs from p by at
\* most 3 in each channel.
C9_YCrCbRoundTrip ==
    conv = "YCrCbToRgb" => \A i \in 1..3 : Abs(back[i] - from[i]) <= 3

=============================================================================
